---- MODULE Spec2Model ----
(***************************************************************************)
(* A model of the dynalist mirroring tool (src/src/dynalist/cli.py).       *)
(*                                                                         *)
(*   SpecStatus  the reconciliation of status(): a stored snapshot and a   *)
(*               freshly fetched remote status are classified.             *)
(*   SpecExport  export_folder(): the item tree is built from the flat     *)
(*               listing, flattened and exported in batches.               *)
(*   SpecTree    _build_item_tree on listings whose titles are free text.  *)
(*   SpecWrite   _write_document(): a fetched document is serialized.      *)
(*   SpecUpdate  update() run twice, and the start of status(), on the     *)
(*               settings file and the document files.                     *)
(*                                                                         *)
(* Ordered dictionaries (Python dicts keep insertion order) are sequences  *)
(* of entries with pairwise distinct ids.  A path string is represented by *)
(* its rank in Python's string order, so equality and "<" on ranks are     *)
(* equality and "<" on the strings.                                        *)
(***************************************************************************)
EXTENDS Integers, Sequences, FiniteSets, TLC

VARIABLES
    \* ---- status() ----
    local_status,        \* settings["status"]: the stored snapshot
    remote_status,       \* what _fetch_status returned
    st_pc,               \* "idle" | "done"
    st_sort,             \* the sort argument of the call
    remote_only_items,   \* New
    local_only_items,    \* Deleted
    remote_newer_items,  \* Modified
    local_newer_items,   \* Outdated
    same_version_items,  \* No Changes
    replace_existing,    \* overlay: remote ids that took a local id's path
    st_output,           \* what _write_items wrote, section by section
    \* ---- export_folder() ----
    files,               \* json_data["files"] of list_files, indexed by id
    ex_pc,               \* "idle" | "loop" | "done" | "raised"
    ex_item,             \* the Item tree _fetch_item returned, or NoItem
    ex_documents,        \* list(_collect_documents(item))
    ex_i,                \* start index of the current batch (0-based)
    ex_j,                \* number of documents handed to export_document
    ex_errors,           \* what _error reported, in order
    ex_reads,            \* ids passed to read_doc, in order
    ex_writes,           \* files opened for writing, in order
    ex_pauses,           \* for each sleep(60): documents handled before it
    ex_failed,           \* documents whose fetch failed (reported, skipped)
    \* ---- _write_document() ----
    wd_json,             \* json_data of read_doc: the title and the nodes
    wd_root_node,        \* the root_node argument
    wd_with_format,      \* the with_format argument
    wd_with_state,       \* the with_state argument
    wd_pc,               \* "idle" | "done" | "raised"
    wd_output,           \* the lines written to output, in order
    wd_error,            \* the exception that left _write_document, if any
    \* ---- update() and the start of status() ----
    settings,            \* the file .dynalist.json: the root id and the snapshot
    versions,            \* the version the service has for each document
    disk,                \* the document files as the last process left them
    up_pc,               \* "idle" | "export" | "saved" | "returned" | "raised"
    up_settings,         \* what _load_settings returned to update
    up_errors,           \* what _error reported for update and status
    up_calls,            \* remote calls of _fetch_status in this process
    up_second,           \* a process has exited: this is the second one
    up_first_saved,      \* the first update reached _save_settings
    up_edited,           \* a document has changed remotely
    up_edit,             \* that change: the document, and the read_doc calls
                         \* this process had made before it
    up_status            \* status(): "idle" | "loaded" | "returned"

statusVars == <<local_status, remote_status, st_pc, st_sort, remote_only_items,
                local_only_items, remote_newer_items, local_newer_items,
                same_version_items, replace_existing, st_output>>

exportVars == <<files, ex_pc, ex_item, ex_documents, ex_i, ex_j, ex_errors,
                ex_reads, ex_writes, ex_pauses, ex_failed>>

writeVars == <<wd_json, wd_root_node, wd_with_format, wd_with_state, wd_pc,
               wd_output, wd_error>>

updateVars == <<settings, versions, disk, up_pc, up_settings, up_errors, up_calls,
                up_second, up_first_saved, up_edited, up_edit, up_status>>

vars == <<statusVars, exportVars, writeVars, updateVars>>

(***************************************************************************)
(* Bounds                                                                  *)
(***************************************************************************)
\* entries of a snapshot / of a remote status
MaxEntries == 2

\* document ids of the reconciliation, in the order of first use
IdNames == <<"A", "B", "C">>

Ids == {IdNames[k] : k \in 1..Len(IdNames)}

\* path strings, by rank in string order
Paths == {1, 2}

\* version numbers
Versions == {1, 2}

\* records of a small listing (ids 1..MaxFiles; the id MaxFiles + 1 is in no
\* listing)
MaxFiles == 3

\* documents of a flat folder, for the batches of export_folder
MaxWide == 45

\* read_doc failures injected into one export_folder run
MaxFailures == 1

\* limit = 20 (line 380)
limit == 20

\* nodes of a document besides the node "root" (ids 1..MaxNodes; the id
\* MaxNodes + 1 is in no node table)
MaxNodes == 2

\* characters of a title, a content or a note
MaxText == 2

\* documents of the folder that update mirrors
MaxDocs == 2

(***************************************************************************)
(* Ordered dictionaries                                                    *)
(***************************************************************************)
Range(s) == {s[k] : k \in 1..Len(s)}

Keys(d) == [k \in 1..Len(d) |-> d[k].id]

Has(d, i) == \E k \in 1..Len(d) : d[k].id = i

Get(d, i) == d[CHOOSE k \in 1..Len(d) : d[k].id = i]

\* the concatenation of the sequences of ss, in order
RECURSIVE Flatten(_)
Flatten(ss) ==
    IF Len(ss) = 0 THEN <<>>
    ELSE IF Len(ss) = 1 THEN ss[1]
    ELSE LET h == Len(ss) \div 2
         IN  Flatten(SubSeq(ss, 1, h)) \o Flatten(SubSeq(ss, h + 1, Len(ss)))

Entries == [id : Ids, path : Paths, version : Versions]

Dicts ==
    {d \in UNION {[1..n -> Entries] : n \in 0..MaxEntries} :
        \A a, b \in 1..Len(d) : a # b => d[a].id # d[b].id}

(***************************************************************************)
(* status(): sorted() with key = path.  Python's sort is stable: an entry  *)
(* goes after every entry whose path is not greater.                       *)
(***************************************************************************)
RECURSIVE InsertByPath(_, _)
InsertByPath(sorted, e) ==
    IF sorted = <<>> THEN <<e>>
    ELSE IF e.path < sorted[1].path THEN <<e>> \o sorted
    ELSE <<sorted[1]>> \o InsertByPath(Tail(sorted), e)

RECURSIVE SortedByPath(_)
SortedByPath(d) ==
    IF d = <<>> THEN <<>>
    ELSE InsertByPath(SortedByPath(SubSeq(d, 1, Len(d) - 1)), d[Len(d)])

\* the sort flag is ignored
SortStatusAlways(d, sort) == SortedByPath(d)

SortStatus(d, sort) == IF sort THEN SortedByPath(d) ELSE d

(***************************************************************************)
(* status(): the loop over remote_items (lines 503-514).                   *)
(***************************************************************************)
EmptyRemoteLists ==
    [remote_only |-> <<>>, local_newer |-> <<>>,
     remote_newer |-> <<>>, same_version |-> <<>>]

\* the "continue" of line 506 is missing: a new id is classified a second time
RemoteStepNoContinue(local, remote, i, acc) ==
    IF ~Has(local, i)
    THEN [acc EXCEPT !.remote_only = Append(@, i), !.same_version = Append(@, i)]
    ELSE LET lv == Get(local, i).version
             rv == Get(remote, i).version
         IN  IF lv > rv THEN [acc EXCEPT !.local_newer = Append(@, i)]
             ELSE IF lv < rv THEN [acc EXCEPT !.remote_newer = Append(@, i)]
             ELSE [acc EXCEPT !.same_version = Append(@, i)]

\* the two version comparisons are exchanged
RemoteStepSwapped(local, remote, i, acc) ==
    IF ~Has(local, i)
    THEN [acc EXCEPT !.remote_only = Append(@, i)]
    ELSE LET lv == Get(local, i).version
             rv == Get(remote, i).version
         IN  IF lv < rv THEN [acc EXCEPT !.local_newer = Append(@, i)]
             ELSE IF lv > rv THEN [acc EXCEPT !.remote_newer = Append(@, i)]
             ELSE [acc EXCEPT !.same_version = Append(@, i)]

RemoteStep(local, remote, i, acc) ==
    IF ~Has(local, i)
    THEN [acc EXCEPT !.remote_only = Append(@, i)]
    ELSE LET lv == Get(local, i).version
             rv == Get(remote, i).version
         IN  IF lv > rv THEN [acc EXCEPT !.local_newer = Append(@, i)]
             ELSE IF lv < rv THEN [acc EXCEPT !.remote_newer = Append(@, i)]
             ELSE [acc EXCEPT !.same_version = Append(@, i)]

RECURSIVE RemoteLoop(_, _, _)
RemoteLoop(local, remote, n) ==
    IF n = 0 THEN EmptyRemoteLists
    ELSE RemoteStep(local, remote, remote[n].id, RemoteLoop(local, remote, n - 1))

(***************************************************************************)
(* status(): the loop over local_items (lines 516-523).                    *)
(***************************************************************************)
\* the test "i != r" of line 522 is missing
RECURSIVE ReplaceScanSameId(_, _, _)
ReplaceScanSameId(le, remote, n) ==
    IF n = 0 THEN <<>>
    ELSE LET r == remote[n]
             before == ReplaceScanSameId(le, remote, n - 1)
         IN  IF le.path = r.path THEN Append(before, r.id)
             ELSE before

RECURSIVE ReplaceScan(_, _, _)
ReplaceScan(le, remote, n) ==
    IF n = 0 THEN <<>>
    ELSE LET r == remote[n]
             before == ReplaceScan(le, remote, n - 1)
         IN  IF le.path = r.path /\ le.id # r.id THEN Append(before, r.id)
             ELSE before

\* the test "i not in remote_items" of line 517 is missing
LocalStepAlwaysDeleted(local, remote, le, acc) ==
    [local_only |-> Append(acc.local_only, le.id),
     replace |-> acc.replace \o ReplaceScan(le, remote, Len(remote))]

LocalStep(local, remote, le, acc) ==
    [local_only |-> IF ~Has(remote, le.id) THEN Append(acc.local_only, le.id)
                    ELSE acc.local_only,
     replace |-> acc.replace \o ReplaceScan(le, remote, Len(remote))]

RECURSIVE LocalLoop(_, _, _)
LocalLoop(local, remote, n) ==
    IF n = 0 THEN [local_only |-> <<>>, replace |-> <<>>]
    ELSE LocalStep(local, remote, local[n], LocalLoop(local, remote, n - 1))

(***************************************************************************)
(* status()._write_items (lines 525-549): one line per id, the path(s) and *)
(* the " *" mark.                                                          *)
(***************************************************************************)
WriteLine(local, remote, replace, i) ==
    [id |-> i,
     lp |-> IF Has(local, i) THEN Get(local, i).path ELSE 0,
     rp |-> IF Has(remote, i)
               /\ (~Has(local, i) \/ Get(local, i).path # Get(remote, i).path)
            THEN Get(remote, i).path ELSE 0,
     star |-> \E k \in 1..Len(replace) : replace[k] = i]

WriteItems(heading, item_ids, local, remote, replace) ==
    IF item_ids = <<>> THEN <<>>
    ELSE <<[heading |-> heading,
            lines |-> [k \in 1..Len(item_ids) |->
                          WriteLine(local, remote, replace, item_ids[k])]]>>

(***************************************************************************)
(* The flat listing of list_files.  A title is what PurePosixPath makes of *)
(* it: its components, and whether it is absolute.  A path is a sequence   *)
(* of components; the component 0 is the anchor "/".                       *)
(***************************************************************************)
FileIds == 1..MaxFiles

root_file_id == 1

MissingId == MaxFiles + 1

PlainTitle(c) == [abs |-> FALSE, parts |-> <<c>>]

\* the title "/" that line 67 gives the root record
RootTitle == [abs |-> TRUE, parts |-> <<>>]

Titles == {PlainTitle(1), PlainTitle(2)}

\* PurePosixPath.joinpath
JoinPath(p, t) == IF t.abs THEN <<0>> \o t.parts ELSE p \o t.parts

IsPrefix(base, p) == Len(base) <= Len(p) /\ SubSeq(p, 1, Len(base)) = base

\* PurePosixPath.relative_to, where base is a prefix of p
RelativeTo(p, base) == SubSeq(p, Len(base) + 1, Len(p))

\* sequences without repetition over S
RECURSIVE Arrangements(_)
Arrangements(S) ==
    {<<>>} \cup UNION {{<<x>> \o a : a \in Arrangements(S \ {x})} : x \in S}

\* the titles of record i: line 67 overwrites the root's; titles are only
\* ever compared, so the first other record has the first title
TitlesOf(i) == IF i <= root_file_id + 1 THEN {PlainTitle(1)} ELSE Titles

\* the records a listing may hold for id i: a folder lists ids above its own
\* (no cycles) and possibly the id that is in no listing
RecordsOf(i) ==
    {[id |-> i, type |-> "folder", title |-> t, children |-> c] :
        t \in TitlesOf(i), c \in Arrangements((i + 1)..(MaxFiles + 1))}
    \cup (IF i = root_file_id THEN {}
          ELSE {[id |-> i, type |-> ty, title |-> t] :
                   ty \in {"document", "other"}, t \in TitlesOf(i)})

\* listings of the ids i..MaxFiles in which no file has two parents
RECURSIVE ListingsFrom(_)
ListingsFrom(i) ==
    IF i > MaxFiles THEN {<<>>}
    ELSE {(i :> e) @@ t : e \in RecordsOf(i), t \in ListingsFrom(i + 1)}

SmallListings ==
    {t \in ListingsFrom(1) :
        \A a, b \in DOMAIN t :
            (a # b /\ "children" \in DOMAIN t[a] /\ "children" \in DOMAIN t[b])
            => (Range(t[a].children) \cap Range(t[b].children)) \subseteq {MissingId}}

\* the root folder holding n documents
WideListing(n) ==
    [i \in 1..(n + 1) |->
        IF i = root_file_id
        THEN [id |-> i, type |-> "folder", title |-> PlainTitle(1),
              children |-> [k \in 1..n |-> k + 1]]
        ELSE [id |-> i, type |-> "document", title |-> PlainTitle(i)]]

\* the sizes next to a multiple of the batch size, and the largest
WideSizes ==
    {n \in 1..MaxWide : n % limit \in {0, 1, limit - 1} \/ n = MaxWide}

WideListings == {WideListing(n) : n \in WideSizes}

Listings == SmallListings \cup WideListings

(***************************************************************************)
(* _build_item_tree (lines 42-73)                                          *)
(***************************************************************************)
NoItem == [id |-> 0, type |-> "none", path |-> <<>>, children |-> <<>>]

NewItem(id, type, path, children) ==
    [id |-> id, type |-> type, path |-> path, children |-> children]

Error(kind, id) == [kind |-> kind, id |-> id]

RECURSIVE CreateNode(_, _, _, _)
RECURSIVE BuildChildren(_, _, _, _)
RECURSIVE BuildChildrenBreak(_, _, _, _)

\* "break" instead of "continue" at line 61: the siblings after a missing
\* child are dropped
BuildChildrenBreak(children, item_table, path, root_id) ==
    IF Len(children) = 0 THEN [items |-> <<>>, errors |-> <<>>, stopped |-> FALSE]
    ELSE IF Len(children) = 1
    THEN LET r == CreateNode(children[1], item_table, path, root_id)
         IN  IF r.raised
             THEN [items |-> <<>>, errors |-> <<r.message>>, stopped |-> TRUE]
             ELSE [items |-> <<r.item>>, errors |-> r.errors, stopped |-> FALSE]
    ELSE LET h == Len(children) \div 2
             a == BuildChildrenBreak(SubSeq(children, 1, h), item_table, path, root_id)
             b == BuildChildrenBreak(SubSeq(children, h + 1, Len(children)),
                                     item_table, path, root_id)
         IN  IF a.stopped THEN a
             ELSE [items |-> a.items \o b.items, errors |-> a.errors \o b.errors,
                   stopped |-> b.stopped]

\* the loop of lines 56-62 over children in listed order: a child whose
\* creation raises is reported and skipped (57-61), any other is appended
\* (62).  The list is handled in two halves, one after the other, so that a
\* long list does not nest deeply.
BuildChildren(children, item_table, path, root_id) ==
    IF Len(children) = 0 THEN [items |-> <<>>, errors |-> <<>>]
    ELSE IF Len(children) = 1
    THEN LET r == CreateNode(children[1], item_table, path, root_id)
         IN  IF r.raised
             THEN [items |-> <<>>, errors |-> <<r.message>>]
             ELSE [items |-> <<r.item>>, errors |-> r.errors]
    ELSE LET h == Len(children) \div 2
             a == BuildChildren(SubSeq(children, 1, h), item_table, path, root_id)
             b == BuildChildren(SubSeq(children, h + 1, Len(children)),
                                item_table, path, root_id)
         IN  [items |-> a.items \o b.items, errors |-> a.errors \o b.errors]

\* _create_node (lines 45-64); the message of line 48 names root_id
CreateNode(item_id, item_table, parent_path, root_id) ==
    IF item_id \notin DOMAIN item_table
    THEN [raised |-> TRUE, message |-> Error("Invalid item ID", root_id),
          item |-> NoItem, errors |-> <<>>]
    ELSE LET entry == item_table[item_id]
             path == JoinPath(parent_path, entry.title)
             built == IF "children" \in DOMAIN entry
                      THEN BuildChildren(entry.children, item_table, path, root_id)
                      ELSE [items |-> <<>>, errors |-> <<>>]
         IN  [raised |-> FALSE, message |-> Error("", 0),
              item |-> NewItem(entry.id, entry.type, path, built.items),
              errors |-> built.errors]

\* lines 66-73
BuildItemTree(json_files, json_root_file_id, root_id) ==
    LET item_table == [json_files EXCEPT ![json_root_file_id].title = RootTitle]
    IN  CreateNode(root_id, item_table, <<>>, root_id)

(***************************************************************************)
(* _collect_documents (lines 340-347), as list() consumes it               *)
(***************************************************************************)
RECURSIVE CollectDocuments(_)
RECURSIVE CollectChildren(_)

\* lines 344-345: what the children yield, in order (the list is handled in
\* two halves, one after the other)
CollectChildren(children) ==
    IF Len(children) = 0 THEN [docs |-> <<>>, errors |-> <<>>]
    ELSE IF Len(children) = 1 THEN CollectDocuments(children[1])
    ELSE LET h == Len(children) \div 2
             a == CollectChildren(SubSeq(children, 1, h))
             b == CollectChildren(SubSeq(children, h + 1, Len(children)))
         IN  [docs |-> a.docs \o b.docs, errors |-> a.errors \o b.errors]

CollectDocuments(item) ==
    IF item.type = "document" THEN [docs |-> <<item>>, errors |-> <<>>]
    ELSE IF item.type = "folder" THEN CollectChildren(item.children)
    ELSE [docs |-> <<>>, errors |-> <<Error("Unknown type", item.id)>>]

(***************************************************************************)
(* The documents of read_doc.  A text is the sequence of its characters.   *)
(* A node is a JSON object: the sequence of its fields in the order of the *)
(* record, each a function from its key to its value, looked up by key.    *)
(* The node id "root" is 0.                                                *)
(***************************************************************************)
Chars == {"a", "&", "<", ">", "\"", "'"}

Texts == UNION {[1..n -> Chars] : n \in 0..MaxText}

RootId == 0

NodeIds == 1..MaxNodes

MissingNode == MaxNodes + 1

KeyValue(key, value) == key :> value

\* key in node
HasField(node, key) == \E k \in 1..Len(node) : key \in DOMAIN node[k]

\* node[key]
Field(node, key) == node[CHOOSE k \in 1..Len(node) : key \in DOMAIN node[k]][key]

Reverse(s) == [k \in 1..Len(s) |-> s[Len(s) + 1 - k]]

(***************************************************************************)
(* _write_node (lines 198-267)                                             *)
(***************************************************************************)
\* lines 210-216
table ==
    ("&" :> <<"&", "a", "m", "p", ";">>)
    @@ ("<" :> <<"&", "l", "t", ";">>)
    @@ (">" :> <<"&", "g", "t", ";">>)
    @@ ("\"" :> <<"&", "q", "u", "o", "t", ";">>)
    @@ ("'" :> <<"&", "a", "p", "o", "s", ";">>)

\* _escape (lines 209-217): str.translate replaces each character that has
\* an entry in the table
Escape(text) ==
    Flatten([k \in 1..Len(text) |->
                IF text[k] \in DOMAIN table THEN table[text[k]] ELSE <<text[k]>>])

\* name="value"
Attr(name, value) == [name |-> name, value |-> value]

TrueValue == <<"t", "r", "u", "e">>

\* str() of a colour number
Decimal(n) == <<<<"0", "1", "2", "3", "4", "5", "6", "7", "8", "9">>[n + 1]>>

\* a line of the output: the opening, closing or self-closed element of the
\* node id at a number of tabs, or the header or the footer
Line(kind, indent, id, parts) ==
    [kind |-> kind, indent |-> indent, id |-> id, parts |-> parts]

\* the attributes without the tests of lines 236 and 251, as the older
\* script src/dynalist-export.py writes them
PartsIgnoringFlags(node, with_format, with_state) ==
    (IF HasField(node, "content")
     THEN <<Attr("text", Escape(Field(node, "content")))>> ELSE <<>>)
    \o (IF HasField(node, "note") /\ Field(node, "note") # <<>>
        THEN <<Attr("_note", Escape(Field(node, "note")))>> ELSE <<>>)
    \o (IF HasField(node, "checkbox") /\ Field(node, "checkbox")
        THEN <<Attr("checkbox", TrueValue)>> ELSE <<>>)
    \o (IF HasField(node, "checked") /\ Field(node, "checked")
        THEN <<Attr("complete", TrueValue)>> ELSE <<>>)
    \o (IF HasField(node, "color") /\ Field(node, "color") # 0
        THEN <<Attr("colorLabel", Decimal(Field(node, "color")))>> ELSE <<>>)
    \o (IF HasField(node, "numbered") /\ Field(node, "numbered")
        THEN <<Attr("listStyle", <<"a", "r", "a", "b", "i", "c">>)>> ELSE <<>>)
    \o (IF HasField(node, "collapsed") /\ Field(node, "collapsed")
        THEN <<Attr("collapsed", TrueValue)>> ELSE <<>>)

\* the attributes appended in the order of the fields of the record
PartsInRecordOrder(node, with_format, with_state) ==
    LET PartOf(f) ==
            CASE "content" \in DOMAIN f -> <<Attr("text", Escape(f.content))>>
              [] "note" \in DOMAIN f /\ f.note # <<>> -> <<Attr("_note", Escape(f.note))>>
              [] "checkbox" \in DOMAIN f /\ with_format /\ f.checkbox ->
                    <<Attr("checkbox", TrueValue)>>
              [] "checked" \in DOMAIN f /\ with_format /\ f.checked ->
                    <<Attr("complete", TrueValue)>>
              [] "color" \in DOMAIN f /\ with_format /\ f.color # 0 ->
                    <<Attr("colorLabel", Decimal(f.color))>>
              [] "numbered" \in DOMAIN f /\ with_format /\ f.numbered ->
                    <<Attr("listStyle", <<"a", "r", "a", "b", "i", "c">>)>>
              [] "collapsed" \in DOMAIN f /\ with_state /\ f.collapsed ->
                    <<Attr("collapsed", TrueValue)>>
              [] OTHER -> <<>>
    IN  Flatten([k \in 1..Len(node) |-> PartOf(node[k])])

\* lines 225-254: the attributes of the element, in the order of the appends
Parts(node, with_format, with_state) ==
    (IF HasField(node, "content")
     THEN <<Attr("text", Escape(Field(node, "content")))>> ELSE <<>>)
    \o (IF HasField(node, "note") /\ Field(node, "note") # <<>>
        THEN <<Attr("_note", Escape(Field(node, "note")))>> ELSE <<>>)
    \o (IF with_format
        THEN (IF HasField(node, "checkbox") /\ Field(node, "checkbox")
              THEN <<Attr("checkbox", TrueValue)>> ELSE <<>>)
             \o (IF HasField(node, "checked") /\ Field(node, "checked")
                 THEN <<Attr("complete", TrueValue)>> ELSE <<>>)
             \o (IF HasField(node, "color") /\ Field(node, "color") # 0
                 THEN <<Attr("colorLabel", Decimal(Field(node, "color")))>> ELSE <<>>)
             \o (IF HasField(node, "numbered") /\ Field(node, "numbered")
                 THEN <<Attr("listStyle", <<"a", "r", "a", "b", "i", "c">>)>> ELSE <<>>)
        ELSE <<>>)
    \o (IF with_state
        THEN (IF HasField(node, "collapsed") /\ Field(node, "collapsed")
              THEN <<Attr("collapsed", TrueValue)>> ELSE <<>>)
        ELSE <<>>)

RECURSIVE WriteNode(_, _, _, _, _)
RECURSIVE WriteChildren(_, _, _, _, _)

\* the loop of lines 262-263 (and of 305-306): the exception of a child
\* ends the loop, what was written before it stays written
WriteChildren(children, node_table, indent_level, with_format, with_state) ==
    IF children = <<>>
    THEN [output |-> <<>>, raised |-> FALSE, error |-> Error("", 0)]
    ELSE LET r == WriteNode(Head(children), node_table, indent_level,
                            with_format, with_state)
             t == WriteChildren(Tail(children), node_table, indent_level,
                                with_format, with_state)
         IN  IF r.raised THEN r
             ELSE [output |-> r.output \o t.output, raised |-> t.raised,
                   error |-> t.error]

WriteNode(node_id, node_table, indent_level, with_format, with_state) ==
    IF node_id \notin DOMAIN node_table
    THEN [output |-> <<>>, raised |-> TRUE, error |-> Error("Invalid node ID", node_id)]
    ELSE LET node == node_table[node_id]
             parts == Parts(node, with_format, with_state)
         IN  IF HasField(node, "children")
             THEN LET c == WriteChildren(Field(node, "children"), node_table,
                                         indent_level + 1, with_format, with_state)
                  IN  [output |-> <<Line("open", indent_level, node_id, parts)>>
                                  \o c.output
                                  \o (IF c.raised THEN <<>>
                                      ELSE <<Line("close", indent_level, node_id, <<>>)>>),
                       raised |-> c.raised,
                       error |-> c.error]
             ELSE [output |-> <<Line("empty", indent_level, node_id, parts)>>,
                   raised |-> FALSE, error |-> Error("", 0)]

(***************************************************************************)
(* _write_document (lines 270-307).  OPML_HEAD is one line that carries    *)
(* the title as it is formatted into it, OPML_TAIL is one line.            *)
(***************************************************************************)
\* the children of "root" written at the depth they have below a written
\* "root" (3 instead of 2 at line 306)
WriteDocumentDeeper(json_data, root_node, with_format, with_state) ==
    LET node_table == json_data.nodes
        head == <<Line("head", 0, RootId, <<Attr("title", json_data.title)>>)>>
        tail == <<Line("tail", 0, RootId, <<>>)>>
        body == IF root_node
                THEN WriteNode(RootId, node_table, 2, with_format, with_state)
                ELSE IF RootId \notin DOMAIN node_table
                THEN [output |-> <<>>, raised |-> TRUE, error |-> Error("KeyError", RootId)]
                ELSE IF HasField(node_table[RootId], "children")
                THEN WriteChildren(Field(node_table[RootId], "children"), node_table, 3,
                                   with_format, with_state)
                ELSE [output |-> <<>>, raised |-> FALSE, error |-> Error("", 0)]
    IN  [output |-> head \o body.output \o (IF body.raised THEN <<>> ELSE tail),
         raised |-> body.raised,
         error |-> body.error]

WriteDocument(json_data, root_node, with_format, with_state) ==
    LET node_table == json_data.nodes
        head == <<Line("head", 0, RootId, <<Attr("title", json_data.title)>>)>>
        tail == <<Line("tail", 0, RootId, <<>>)>>
        body == IF root_node
                THEN WriteNode(RootId, node_table, 2, with_format, with_state)
                ELSE IF RootId \notin DOMAIN node_table
                THEN [output |-> <<>>, raised |-> TRUE, error |-> Error("KeyError", RootId)]
                ELSE IF HasField(node_table[RootId], "children")
                THEN WriteChildren(Field(node_table[RootId], "children"), node_table, 2,
                                   with_format, with_state)
                ELSE [output |-> <<>>, raised |-> FALSE, error |-> Error("", 0)]
    IN  [output |-> head \o body.output \o (IF body.raised THEN <<>> ELSE tail),
         raised |-> body.raised,
         error |-> body.error]

(***************************************************************************)
(* export_document (lines 310-337) as export_folder calls it.  outcome is  *)
(* what happens in the call:                                               *)
(*   "ok"          the document is fetched, serialized and written         *)
(*   "read_error"  read_doc raises: reported, the call returns (323-325)   *)
(*   "open_error"  p.open raises: nothing catches it                       *)
(*   "root_error"  node_table["root"] raises KeyError (303) in the open    *)
(*                 file: nothing catches it                                *)
(*   "node_error"  _write_node raises for an id missing from the node      *)
(*                 table (221) in the open file: nothing catches it        *)
(***************************************************************************)
Outcomes == {"ok", "read_error", "open_error", "root_error", "node_error"}

\* a read_doc failure escapes export_document too
ExportDocumentNoCatch(doc, dest_file, outcome) ==
    [reads |-> <<doc.id>>,
     errors |-> <<>>,
     writes |-> IF outcome \in {"read_error", "open_error"} THEN <<>>
                ELSE <<[path |-> dest_file, id |-> doc.id, complete |-> outcome = "ok"]>>,
     raised |-> outcome # "ok"]

ExportDocument(doc, dest_file, outcome) ==
    [reads |-> <<doc.id>>,
     errors |-> IF outcome = "read_error" THEN <<Error("read_doc", doc.id)>> ELSE <<>>,
     writes |-> IF outcome \in {"read_error", "open_error"} THEN <<>>
                ELSE <<[path |-> dest_file, id |-> doc.id, complete |-> outcome = "ok"]>>,
     raised |-> outcome \in {"open_error", "root_error", "node_error"}]

(***************************************************************************)
(* export_folder (lines 350-387)                                           *)
(***************************************************************************)
\* line 374, rejecting only the unknown types
NotAFolderUnknownOnly(item) == item.type \notin {"folder", "document"}

\* line 374
NotAFolder(item) == item.type # "folder"

Min(a, b) == IF a < b THEN a ELSE b

\* lines 360-379: dest is what dest_dir is on disk, list_ok whether list_files
\* answers
ExportFolderStart(folder_id, dest, list_ok) ==
    /\ ex_pc = "idle"
    /\ LET r == BuildItemTree(files, root_file_id, folder_id)
           c == CollectDocuments(r.item)
       IN  IF dest = "file"
           THEN /\ ex_errors' = <<Error("Not a directory", 0)>>
                /\ ex_pc' = "done"
                /\ UNCHANGED <<ex_item, ex_documents>>
           ELSE IF ~list_ok
           THEN /\ ex_errors' = <<Error("list_files", 0)>>
                /\ ex_pc' = "done"
                /\ UNCHANGED <<ex_item, ex_documents>>
           ELSE IF r.raised
           THEN /\ ex_errors' = <<r.message>>
                /\ ex_pc' = "done"
                /\ UNCHANGED <<ex_item, ex_documents>>
           ELSE IF NotAFolder(r.item)
           THEN /\ ex_errors' = r.errors \o <<Error("Not a folder", r.item.id)>>
                /\ ex_pc' = "done"
                /\ ex_item' = r.item
                /\ UNCHANGED ex_documents
           ELSE /\ ex_errors' = r.errors \o c.errors
                /\ ex_pc' = "loop"
                /\ ex_item' = r.item
                /\ ex_documents' = c.docs
    /\ UNCHANGED <<files, ex_i, ex_j, ex_reads, ex_writes, ex_pauses, ex_failed>>
    /\ UNCHANGED <<statusVars, writeVars, updateVars>>

\* lines 382-385: the next document of the current batch
ExportFolderDocument(outcome) ==
    /\ ex_pc = "loop"
    /\ ex_j < Min(ex_i + limit, Len(ex_documents))
    /\ outcome = "read_error" => Cardinality(ex_failed) < MaxFailures
    /\ LET doc == ex_documents[ex_j + 1]
       IN  IF ~IsPrefix(ex_item.path, doc.path)
           THEN \* relative_to raises ValueError
                /\ ex_pc' = "raised"
                /\ UNCHANGED <<ex_errors, ex_reads, ex_writes, ex_failed>>
           ELSE LET d == ExportDocument(doc, RelativeTo(doc.path, ex_item.path), outcome)
                IN  /\ ex_reads' = ex_reads \o d.reads
                    /\ ex_errors' = ex_errors \o d.errors
                    /\ ex_writes' = ex_writes \o d.writes
                    /\ ex_failed' = IF outcome = "read_error"
                                    THEN ex_failed \cup {ex_j + 1} ELSE ex_failed
                    /\ ex_pc' = IF d.raised THEN "raised" ELSE "loop"
    /\ ex_j' = ex_j + 1
    /\ UNCHANGED <<files, ex_item, ex_documents, ex_i, ex_pauses>>
    /\ UNCHANGED <<statusVars, writeVars, updateVars>>

\* lines 386-387 with more documents left: sleep(60), then the next batch
ExportFolderCooldown ==
    /\ ex_pc = "loop"
    /\ ex_j = Min(ex_i + limit, Len(ex_documents))
    /\ ex_i + limit < Len(ex_documents)
    /\ ex_pauses' = Append(ex_pauses, ex_j)
    /\ ex_i' = ex_i + limit
    /\ UNCHANGED <<files, ex_pc, ex_item, ex_documents, ex_j, ex_errors, ex_reads,
                   ex_writes, ex_failed>>
    /\ UNCHANGED <<statusVars, writeVars, updateVars>>

\* the loop of line 381 is exhausted: export_folder returns
ExportFolderReturn ==
    /\ ex_pc = "loop"
    /\ ex_j = Min(ex_i + limit, Len(ex_documents))
    /\ ~(ex_i + limit < Len(ex_documents))
    /\ ex_pc' = "done"
    /\ UNCHANGED <<files, ex_item, ex_documents, ex_i, ex_j, ex_errors, ex_reads,
                   ex_writes, ex_pauses, ex_failed>>
    /\ UNCHANGED <<statusVars, writeVars, updateVars>>

(***************************************************************************)
(* status (lines 465-564), from the loaded snapshot and the fetched remote *)
(* status on.                                                              *)
(***************************************************************************)
status(sort) ==
    /\ st_pc = "idle"
    /\ LET local == SortStatus(local_status, sort)
           remote == SortStatus(remote_status, sort)
           rl == RemoteLoop(local, remote, Len(remote))
           ll == LocalLoop(local, remote, Len(local))
       IN  /\ remote_only_items' = rl.remote_only
           /\ local_newer_items' = rl.local_newer
           /\ remote_newer_items' = rl.remote_newer
           /\ same_version_items' = rl.same_version
           /\ local_only_items' = ll.local_only
           /\ replace_existing' = ll.replace
           /\ st_output' =
                 WriteItems("New", rl.remote_only, local, remote, ll.replace)
                 \o WriteItems("Deleted", ll.local_only, local, remote, ll.replace)
                 \o WriteItems("Modified", rl.remote_newer, local, remote, ll.replace)
                 \o WriteItems("Outdated", rl.local_newer, local, remote, ll.replace)
                 \o WriteItems("No Changes", rl.same_version, local, remote, ll.replace)
    /\ st_sort' = sort
    /\ st_pc' = "done"
    /\ UNCHANGED <<local_status, remote_status>>
    /\ UNCHANGED <<exportVars, writeVars, updateVars>>

StatusIdle ==
    /\ st_pc = "idle"
    /\ st_sort = FALSE
    /\ remote_only_items = <<>>
    /\ local_only_items = <<>>
    /\ remote_newer_items = <<>>
    /\ local_newer_items = <<>>
    /\ same_version_items = <<>>
    /\ replace_existing = <<>>
    /\ st_output = <<>>

ExportIdle ==
    /\ ex_pc = "idle"
    /\ ex_item = NoItem
    /\ ex_documents = <<>>
    /\ ex_i = 0
    /\ ex_j = 0
    /\ ex_errors = <<>>
    /\ ex_reads = <<>>
    /\ ex_writes = <<>>
    /\ ex_pauses = <<>>
    /\ ex_failed = {}

WriteIdle ==
    /\ wd_pc = "idle"
    /\ wd_output = <<>>
    /\ wd_error = Error("", 0)

NoDocument ==
    /\ wd_json = [title |-> <<>>, nodes |-> <<>>]
    /\ wd_root_node = FALSE
    /\ wd_with_format = FALSE
    /\ wd_with_state = FALSE
    /\ WriteIdle

\* no file .dynalist.json
NoSettings == [exists |-> FALSE, root |-> 0, status |-> <<>>]

\* the file .dynalist.json with a root id (0: no key "root") and a snapshot
Settings(root_id, snapshot) == [exists |-> TRUE, root |-> root_id, status |-> snapshot]

\* no remote change since this process started
NoEdit == [doc |-> 0, reads |-> 0]

\* a process that has not called update or status
ProcessIdle ==
    /\ up_pc = "idle"
    /\ up_settings = NoSettings
    /\ up_errors = <<>>
    /\ up_calls = 0
    /\ up_edit = NoEdit
    /\ up_status = "idle"

NoProject ==
    /\ settings = NoSettings
    /\ versions = <<>>
    /\ disk = <<>>
    /\ up_second = FALSE
    /\ up_first_saved = FALSE
    /\ up_edited = FALSE
    /\ ProcessIdle

\* status() only tests ids for equality, so every pair of dictionaries is a
\* renaming of one whose ids are named in the order they first occur, in the
\* snapshot and then in the remote status
NamedInOrder(local, remote) ==
    LET NotLocal(i) == ~Has(local, i)
        seen == Keys(local) \o SelectSeq(Keys(remote), NotLocal)
    IN  \A k \in 1..Len(seen) : seen[k] = IdNames[k]

InitStatus ==
    /\ local_status \in Dicts
    /\ remote_status \in Dicts
    /\ NamedInOrder(local_status, remote_status)
    /\ StatusIdle
    /\ files = <<>>
    /\ ExportIdle
    /\ NoDocument
    /\ NoProject

NextStatus == \E sort \in BOOLEAN : status(sort)

SpecStatus == InitStatus /\ [][NextStatus]_vars

InitExport ==
    /\ files \in Listings
    /\ ExportIdle
    /\ local_status = <<>>
    /\ remote_status = <<>>
    /\ StatusIdle
    /\ NoDocument
    /\ NoProject

NextExport ==
    \/ \E folder_id \in FileIds \cup {MissingId} :
          \E dest \in {"absent", "dir", "file"} :
             \E list_ok \in BOOLEAN : ExportFolderStart(folder_id, dest, list_ok)
    \/ \E outcome \in Outcomes : ExportFolderDocument(outcome)
    \/ ExportFolderCooldown
    \/ ExportFolderReturn

SpecExport == InitExport /\ [][NextExport]_vars

(***************************************************************************)
(* _build_item_tree over listings whose titles are free text.  joinpath    *)
(* parses a title as a path: "a/b" has two components, "/a" is absolute    *)
(* and replaces the parent's path, "" and "." have no component.           *)
(***************************************************************************)
AnyTitles ==
    {PlainTitle(1),
     [abs |-> FALSE, parts |-> <<1, 2>>],
     [abs |-> TRUE, parts |-> <<1>>],
     [abs |-> FALSE, parts |-> <<>>]}

\* the records of id i: folders and documents, every listed child has a
\* record; line 67 overwrites the root's title
TitledRecordsOf(i) ==
    {[id |-> i, type |-> "folder", title |-> t, children |-> c] :
        t \in (IF i = root_file_id THEN {PlainTitle(1)} ELSE AnyTitles),
        c \in Arrangements((i + 1)..MaxFiles)}
    \cup (IF i = root_file_id THEN {}
          ELSE {[id |-> i, type |-> "document", title |-> t] : t \in AnyTitles})

RECURSIVE TitledListingsFrom(_)
TitledListingsFrom(i) ==
    IF i > MaxFiles THEN {<<>>}
    ELSE {(i :> e) @@ t : e \in TitledRecordsOf(i), t \in TitledListingsFrom(i + 1)}

\* no file has two parents
TitledListings ==
    {t \in TitledListingsFrom(1) :
        \A a, b \in DOMAIN t :
            (a # b /\ "children" \in DOMAIN t[a] /\ "children" \in DOMAIN t[b])
            => Range(t[a].children) \cap Range(t[b].children) = {}}

InitTree ==
    /\ files \in TitledListings
    /\ ExportIdle
    /\ local_status = <<>>
    /\ remote_status = <<>>
    /\ StatusIdle
    /\ NoDocument
    /\ NoProject

\* export_folder up to the list of documents (lines 360-379), for any id
NextTree ==
    \E folder_id \in FileIds \cup {MissingId} :
        ExportFolderStart(folder_id, "dir", TRUE)

SpecTree == InitTree /\ [][NextTree]_vars

(***************************************************************************)
(* export_document writing a fetched document (lines 336-337)              *)
(***************************************************************************)
ExportDocumentWrite ==
    /\ wd_pc = "idle"
    /\ LET r == WriteDocument(wd_json, wd_root_node, wd_with_format, wd_with_state)
       IN  /\ wd_output' = r.output
           /\ wd_error' = r.error
           /\ wd_pc' = IF r.raised THEN "raised" ELSE "done"
    /\ UNCHANGED <<wd_json, wd_root_node, wd_with_format, wd_with_state>>
    /\ UNCHANGED <<statusVars, exportVars, updateVars>>

PlainNode(i) == <<KeyValue("id", i), KeyValue("content", <<"a">>)>>

\* a node with or without the field "children"; a node lists ids above its
\* own (no cycles) and possibly the id that is in no node table
ShapeNodesOf(i) ==
    {PlainNode(i)}
    \cup {Append(PlainNode(i), KeyValue("children", c)) :
             c \in Arrangements((i + 1)..(MaxNodes + 1))}

RECURSIVE ShapeTablesFrom(_)
ShapeTablesFrom(i) ==
    IF i > MaxNodes THEN {<<>>}
    ELSE {(i :> n) @@ t : n \in ShapeNodesOf(i), t \in ShapeTablesFrom(i + 1)}

\* node tables in which no node has two parents, with and without "root"
ShapeTables ==
    LET trees == {t \in ShapeTablesFrom(RootId) :
                     \A a, b \in DOMAIN t :
                         (a # b /\ HasField(t[a], "children") /\ HasField(t[b], "children"))
                         => (Range(Field(t[a], "children"))
                             \cap Range(Field(t[b], "children"))) \subseteq {MissingNode}}
    IN  trees \cup {[i \in NodeIds |-> t[i]] : t \in trees}

ShapeDocs == {[title |-> <<"a">>, nodes |-> t] : t \in ShapeTables}

\* zero or one field key with one of the values
Optional(key, values) == {<<>>} \cup {<<KeyValue(key, v)>> : v \in values}

\* a leaf with every combination of absent, falsy and truthy optional
\* fields, in the order of the API documentation and in the reverse order
RichNodes(i) ==
    LET ordered == {PlainNode(i) \o n \o cb \o ck \o co \o nu \o cl :
                       n \in Optional("note", {<<>>, <<"a">>}),
                       cb \in Optional("checkbox", BOOLEAN),
                       ck \in Optional("checked", BOOLEAN),
                       co \in Optional("color", {0, 1}),
                       nu \in Optional("numbered", BOOLEAN),
                       cl \in Optional("collapsed", BOOLEAN)}
    IN  ordered \cup {Reverse(n) : n \in ordered}

\* the document whose only node below "root" is n
OneNodeDoc(title, n) ==
    [title |-> title,
     nodes |-> (RootId :> Append(PlainNode(RootId), KeyValue("children", <<1>>)))
               @@ (1 :> n)]

AttrDocs == {OneNodeDoc(<<"a">>, n) : n \in RichNodes(1)}

TextNode(i, content, note) ==
    <<KeyValue("id", i), KeyValue("content", content), KeyValue("note", note)>>

\* any text as the title, as the content or as the note
TextDocs ==
    {OneNodeDoc(t, TextNode(1, <<"a">>, <<"a">>)) : t \in Texts}
    \cup {OneNodeDoc(<<"a">>, TextNode(1, t, <<"a">>)) : t \in Texts}
    \cup {OneNodeDoc(<<"a">>, TextNode(1, <<"a">>, t)) : t \in Texts}

\* the flags only matter to nodes that have a field the flags select
InitWrite ==
    /\ \/ /\ wd_json \in ShapeDocs
          /\ wd_with_format = FALSE
          /\ wd_with_state = FALSE
       \/ /\ wd_json \in AttrDocs \cup TextDocs
          /\ wd_with_format \in BOOLEAN
          /\ wd_with_state \in BOOLEAN
    /\ wd_root_node \in BOOLEAN
    /\ WriteIdle
    /\ files = <<>>
    /\ ExportIdle
    /\ local_status = <<>>
    /\ remote_status = <<>>
    /\ StatusIdle
    /\ NoProject

NextWrite == ExportDocumentWrite

SpecWrite == InitWrite /\ [][NextWrite]_vars

(***************************************************************************)
(* The settings file (lines 421-437), _fetch_status (440-462)              *)
(***************************************************************************)
\* a missing file is read as a project of the root folder
LoadSettingsDefault(file) ==
    [raised |-> FALSE,
     settings |-> IF file.exists THEN file ELSE Settings(root_file_id, <<>>)]

\* _load_settings: FileNotFoundError when the file does not exist
LoadSettings(file) == [raised |-> ~file.exists, settings |-> file]

\* _save_settings: the file is created or overwritten
SaveSettings(json_data) == [json_data EXCEPT !.exists = TRUE]

\* what the remote calls of _fetch_status do
Fetches == {"ok", "list_error", "check_error"}

\* _fetch_status: the documents under root_id in the order _collect_documents
\* yields them, each with its path below the root and its version; calls is
\* the number of remote calls made
FetchStatus(listing, root_id, vers, fetch) ==
    LET r == BuildItemTree(listing, root_file_id, root_id)
        docs == CollectDocuments(r.item).docs
    IN  IF fetch = "list_error" \/ r.raised
        THEN [raised |-> TRUE, calls |-> 1, status |-> <<>>]
        ELSE IF \E k \in 1..Len(docs) : ~IsPrefix(r.item.path, docs[k].path)
        THEN [raised |-> TRUE, calls |-> 1, status |-> <<>>]
        ELSE IF fetch = "check_error"
        THEN [raised |-> TRUE, calls |-> 2, status |-> <<>>]
        ELSE [raised |-> FALSE, calls |-> 2,
              status |-> [k \in 1..Len(docs) |->
                             [id |-> docs[k].id,
                              path |-> RelativeTo(docs[k].path, r.item.path),
                              version |-> vers[docs[k].id]]]]

\* components of the longest path below a root
PathDepth == MaxDocs + 1

\* the rank of str(path) in string order: paths compare component by
\* component, a path before the paths it is a prefix of
RECURSIVE PathRankFrom(_, _)
PathRankFrom(path, k) ==
    IF k > PathDepth THEN 0
    ELSE (IF k <= Len(path) THEN path[k] + 1 ELSE 0)
             * (Cardinality(Titles) + 2) ^ (PathDepth - k)
         + PathRankFrom(path, k + 1)

PathRank(path) == PathRankFrom(path, 1)

\* a snapshot as status() compares it
AsEntries(snapshot) ==
    [k \in 1..Len(snapshot) |->
        [id |-> snapshot[k].id, path |-> PathRank(snapshot[k].path),
         version |-> snapshot[k].version]]

\* the version read_doc gave this process for document i: the version before
\* the remote change when the call came before it
ReadVersion(i) ==
    IF up_edit.doc = i /\ \E k \in 1..up_edit.reads : ex_reads[k] = i
    THEN versions[i] - 1
    ELSE versions[i]

ReadVersions == [i \in DOMAIN versions |-> ReadVersion(i)]

\* the document files after the writes of a process: a file holds what the
\* last write to its path left
RECURSIVE DiskAfter(_, _, _)
DiskAfter(d, writes, vers) ==
    IF writes = <<>> THEN d
    ELSE LET w == Head(writes)
             content == [id |-> w.id, version |-> vers[w.id], complete |-> w.complete]
         IN  DiskAfter((w.path :> content) @@ d, Tail(writes), vers)

(***************************************************************************)
(* update (lines 567-589).  The folder of these runs holds fewer than      *)
(* limit documents, so export_folder never pauses; the documents are       *)
(* sound, so a call of export_document succeeds, fails to fetch or fails   *)
(* to open the file.                                                       *)
(***************************************************************************)
UpdateOutcomes == {"ok", "read_error", "open_error"}

\* lines 570-584
UpdateLoad ==
    /\ up_pc = "idle"
    /\ up_status # "loaded"
    /\ LET l == LoadSettings(settings)
       IN  IF l.raised
           THEN /\ up_errors' = Append(up_errors, Error("FileNotFoundError", 0))
                /\ up_pc' = "returned"
                /\ UNCHANGED up_settings
           ELSE IF l.settings.root = 0
           THEN /\ up_errors' = Append(up_errors, Error("Invalid settings file", 0))
                /\ up_pc' = "returned"
                /\ up_settings' = l.settings
           ELSE /\ up_pc' = "export"
                /\ up_settings' = l.settings
                /\ UNCHANGED up_errors
    /\ UNCHANGED <<settings, versions, disk, up_calls, up_second, up_first_saved,
                   up_edited, up_edit, up_status>>
    /\ UNCHANGED <<statusVars, exportVars, writeVars>>

\* line 586: export_folder(token, root_id, False, with_format, with_state,
\* dest_dir)
UpdateExportStart(dest, list_ok) ==
    /\ up_pc = "export"
    /\ ExportFolderStart(up_settings.root, dest, list_ok)

UpdateExportDocument(outcome) ==
    /\ up_pc = "export"
    /\ ExportFolderDocument(outcome)

UpdateExportReturn ==
    /\ up_pc = "export"
    /\ ExportFolderReturn

\* lines 588-589, once export_folder has returned: an exception of
\* _fetch_status leaves update
UpdateFetchSave(fetch) ==
    /\ up_pc = "export"
    /\ ex_pc = "done"
    /\ LET r == FetchStatus(files, up_settings.root, versions, fetch)
       IN  /\ up_calls' = up_calls + r.calls
           /\ IF r.raised
              THEN /\ up_pc' = "raised"
                   /\ UNCHANGED settings
              ELSE /\ up_pc' = "saved"
                   /\ settings' = SaveSettings([up_settings EXCEPT !.status = r.status])
    /\ UNCHANGED <<versions, disk, up_settings, up_errors, up_second, up_first_saved,
                   up_edited, up_edit, up_status>>
    /\ UNCHANGED <<statusVars, exportVars, writeVars>>

\* update is over: it returned, or an exception left it
UpdateOver ==
    \/ up_pc \in {"saved", "returned", "raised"}
    \/ up_pc = "export" /\ ex_pc = "raised"

\* the process of the first update ends (main, lines 657-705): the files it
\* wrote stay, what it held in memory is gone
Exit ==
    /\ UpdateOver
    /\ ~up_second
    /\ up_second' = TRUE
    /\ up_first_saved' = (up_pc = "saved")
    /\ disk' = DiskAfter(disk, ex_writes, ReadVersions)
    /\ up_edit' = NoEdit
    /\ up_pc' = "idle"
    /\ up_settings' = NoSettings
    /\ up_errors' = <<>>
    /\ up_calls' = 0
    /\ ex_pc' = "idle"
    /\ ex_item' = NoItem
    /\ ex_documents' = <<>>
    /\ ex_i' = 0
    /\ ex_j' = 0
    /\ ex_errors' = <<>>
    /\ ex_reads' = <<>>
    /\ ex_writes' = <<>>
    /\ ex_pauses' = <<>>
    /\ ex_failed' = {}
    /\ UNCHANGED <<files, settings, versions, up_edited, up_status>>
    /\ UNCHANGED <<statusVars, writeVars>>

\* a document is edited remotely, once: between two steps of a running
\* update, or between the two processes.  The service gives it the next
\* version.
RemoteEdit(doc) ==
    /\ \/ up_pc = "export" /\ ex_pc # "raised"
       \/ up_pc = "idle" /\ up_second
    /\ up_status # "loaded"
    /\ ~up_edited
    /\ doc \in DOMAIN versions
    /\ versions' = [versions EXCEPT ![doc] = @ + 1]
    /\ up_edited' = TRUE
    /\ up_edit' = [doc |-> doc, reads |-> Len(ex_reads)]
    /\ UNCHANGED <<settings, disk, up_pc, up_settings, up_errors, up_calls, up_second,
                   up_first_saved, up_status>>
    /\ UNCHANGED <<statusVars, exportVars, writeVars>>

(***************************************************************************)
(* status, lines 468-482: the snapshot is loaded and the remote status     *)
(* fetched; the reconciliation of lines 484-564 is the action status.      *)
(***************************************************************************)
StatusLoad(fetch) ==
    /\ up_pc = "idle"
    /\ up_status = "idle"
    /\ st_pc = "idle"
    /\ LET l == LoadSettings(settings)
           r == FetchStatus(files, l.settings.root, versions, fetch)
       IN  IF l.raised
           THEN /\ up_errors' = Append(up_errors, Error("FileNotFoundError", 0))
                /\ up_status' = "returned"
                /\ UNCHANGED <<local_status, remote_status, up_calls>>
           ELSE IF r.raised
           THEN /\ up_errors' = Append(up_errors, Error("_fetch_status", 0))
                /\ up_status' = "returned"
                /\ up_calls' = up_calls + r.calls
                /\ UNCHANGED <<local_status, remote_status>>
           ELSE /\ local_status' = AsEntries(l.settings.status)
                /\ remote_status' = AsEntries(r.status)
                /\ up_status' = "loaded"
                /\ up_calls' = up_calls + r.calls
                /\ UNCHANGED up_errors
    /\ UNCHANGED <<settings, versions, disk, up_pc, up_settings, up_second,
                   up_first_saved, up_edited, up_edit>>
    /\ UNCHANGED <<st_pc, st_sort, remote_only_items, local_only_items,
                   remote_newer_items, local_newer_items, same_version_items,
                   replace_existing, st_output>>
    /\ UNCHANGED <<exportVars, writeVars>>

StatusReconcile(sort) ==
    /\ up_status = "loaded"
    /\ status(sort)

\* the ids of the documents of a flat listing
DocIds == (root_file_id + 1)..(root_file_id + MaxDocs)

\* the root folder holding one document per title of titles
FlatListing(titles) ==
    [i \in 1..(Len(titles) + 1) |->
        IF i = root_file_id
        THEN [id |-> i, type |-> "folder", title |-> PlainTitle(1),
              children |-> [k \in 1..Len(titles) |-> k + 1]]
        ELSE [id |-> i, type |-> "document", title |-> titles[i - 1]]]

\* up to MaxDocs documents; titles are only ever compared, so the first
\* document has the first title
UpdateListings ==
    {FlatListing(ts) :
        ts \in {t \in UNION {[1..n -> Titles] : n \in 0..MaxDocs} :
                   t # <<>> => t[1] = PlainTitle(1)}}

\* snapshots an earlier update left before the remote folder changed: the
\* first document under another title and at an older version; or a document
\* deleted since, with the first document at a version newer than the remote
OldSnapshots ==
    { <<[id |-> root_file_id + 1, path |-> <<2>>, version |-> 0]>>,
      <<[id |-> root_file_id + MaxDocs + 1, path |-> <<1>>, version |-> 1],
        [id |-> root_file_id + 1, path |-> <<1>>, version |-> 2]>> }

\* no settings file, the settings of a new project (no key "root", the root
\* folder, or the id 2: a document, or in no listing), or the settings of
\* the root folder with an old snapshot
InitUpdate ==
    /\ files \in UpdateListings
    /\ settings \in {NoSettings} \cup {Settings(r, <<>>) : r \in 0..2}
                     \cup {Settings(root_file_id, s) : s \in OldSnapshots}
    /\ versions = [i \in DOMAIN files \ {root_file_id} |-> 1]
    /\ disk = <<>>
    /\ up_second = FALSE
    /\ up_first_saved = FALSE
    /\ up_edited = FALSE
    /\ ProcessIdle
    /\ ExportIdle
    /\ local_status = <<>>
    /\ remote_status = <<>>
    /\ StatusIdle
    /\ NoDocument

NextUpdate ==
    \/ UpdateLoad
    \/ \E dest \in {"absent", "dir", "file"} :
          \E list_ok \in BOOLEAN : UpdateExportStart(dest, list_ok)
    \/ \E outcome \in UpdateOutcomes : UpdateExportDocument(outcome)
    \/ UpdateExportReturn
    \/ \E fetch \in Fetches : UpdateFetchSave(fetch)
    \/ Exit
    \/ \E doc \in DocIds : RemoteEdit(doc)
    \/ \E fetch \in Fetches : StatusLoad(fetch)
    \/ \E sort \in BOOLEAN : StatusReconcile(sort)

SpecUpdate == InitUpdate /\ [][NextUpdate]_vars

(***************************************************************************)
(* Properties of the reconciliation                                        *)
(***************************************************************************)
InList(list, i) == \E k \in 1..Len(list) : list[k] = i

Count(list, i) == Cardinality({k \in 1..Len(list) : list[k] = i})

Pos(list, i) == CHOOSE k \in 1..Len(list) : list[k] = i

LocalIds == Range(Keys(local_status))

RemoteIds == Range(Keys(remote_status))

FiveLists ==
    remote_only_items \o local_only_items \o remote_newer_items
    \o local_newer_items \o same_version_items

\* r is flagged because of the local id i
FlaggedBy(r, i) ==
    /\ Has(local_status, i) /\ Has(remote_status, r)
    /\ i # r
    /\ Get(local_status, i).path = Get(remote_status, r).path

\* C1: after status(), every id of local \cup remote occurs exactly once in
\* the concatenation of the five lists new, deleted, modified, outdated,
\* unchanged, the lists hold nothing else, and every flagged id is already a
\* member of one of the five lists (the flag is an overlay).
C1_Partition ==
    st_pc = "done" =>
        /\ \A i \in LocalIds \cup RemoteIds : Count(FiveLists, i) = 1
        /\ Range(FiveLists) \subseteq LocalIds \cup RemoteIds
        /\ Range(replace_existing) \subseteq Range(FiveLists)

C1_Witness ==
    /\ st_pc = "done"
    /\ remote_only_items # <<>>
    /\ local_only_items # <<>>
    /\ remote_newer_items # <<>>
    /\ replace_existing # <<>>

\* C2: after status(), an id is new iff it is in remote and not in local,
\* deleted iff it is in local and not in remote, and an id in both is
\* modified iff local.version < remote.version, outdated iff
\* local.version > remote.version, unchanged iff the versions are equal.
C2_Classification ==
    st_pc = "done" =>
        \A i \in Ids :
            /\ InList(remote_only_items, i)
                  <=> (Has(remote_status, i) /\ ~Has(local_status, i))
            /\ InList(local_only_items, i)
                  <=> (Has(local_status, i) /\ ~Has(remote_status, i))
            /\ InList(remote_newer_items, i)
                  <=> (/\ Has(local_status, i) /\ Has(remote_status, i)
                       /\ Get(local_status, i).version < Get(remote_status, i).version)
            /\ InList(local_newer_items, i)
                  <=> (/\ Has(local_status, i) /\ Has(remote_status, i)
                       /\ Get(local_status, i).version > Get(remote_status, i).version)
            /\ InList(same_version_items, i)
                  <=> (/\ Has(local_status, i) /\ Has(remote_status, i)
                       /\ Get(local_status, i).version = Get(remote_status, i).version)

C2_Witness ==
    /\ st_pc = "done"
    /\ remote_newer_items # <<>>
    /\ local_newer_items # <<>>

\* what _write_items printed for id i: TRUE iff some line of i carries " *"
Starred(i) ==
    \E s \in 1..Len(st_output) :
        \E k \in 1..Len(st_output[s].lines) :
            st_output[s].lines[k].id = i /\ st_output[s].lines[k].star

\* C3: after status(), a remote id r is flagged replace-existing (and is
\* printed with the mark) iff some local id i # r has the path of r; only
\* remote ids are flagged, so no id of the deleted list is flagged; and for
\* local = {A: (x, 1)}, remote = {B: (x, 1)} the result is deleted = [A],
\* new = [B] with B flagged.
C3_ReplaceExisting ==
    st_pc = "done" =>
        /\ \A r \in RemoteIds :
              /\ InList(replace_existing, r) <=> (\E i \in LocalIds : FlaggedBy(r, i))
              /\ Starred(r) <=> (\E i \in LocalIds : FlaggedBy(r, i))
        /\ Range(replace_existing) \subseteq RemoteIds
        /\ \A i \in Range(local_only_items) :
              ~InList(replace_existing, i) /\ ~Starred(i)
        /\ \A x \in Paths :
              (/\ local_status = <<[id |-> "A", path |-> x, version |-> 1]>>
               /\ remote_status = <<[id |-> "B", path |-> x, version |-> 1]>>)
              => /\ local_only_items = <<"A">>
                 /\ remote_only_items = <<"B">>
                 /\ InList(replace_existing, "B") /\ Starred("B")
                 /\ ~Starred("A")

C3_Witness ==
    /\ st_pc = "done"
    /\ local_status = <<[id |-> "A", path |-> 1, version |-> 1]>>
    /\ remote_status = <<[id |-> "B", path |-> 1, version |-> 1]>>
    /\ Starred("B")

\* C4 as claimed: whenever r is flagged because of the local id i, i is
\* classified deleted and r is classified new.
C4_Original ==
    st_pc = "done" =>
        \A r \in RemoteIds : \A i \in LocalIds :
            (InList(replace_existing, r) /\ FlaggedBy(r, i))
            => (InList(local_only_items, i) /\ InList(remote_only_items, r))

\* C4, amended: whenever r is flagged because of the local id i, r is in
\* exactly one of the lists new, modified, outdated, unchanged, and it is in
\* new exactly when it is absent from the snapshot; i is in deleted exactly
\* when it is absent from remote.  (Deleted-and-recreated is one case; the
\* flag says no more than that another id now has the path stored for i.)
C4_Amended ==
    st_pc = "done" =>
        \A r \in RemoteIds : \A i \in LocalIds :
            (InList(replace_existing, r) /\ FlaggedBy(r, i))
            => /\ Count(remote_only_items \o remote_newer_items
                        \o local_newer_items \o same_version_items, r) = 1
               /\ InList(remote_only_items, r) <=> ~Has(local_status, r)
               /\ InList(local_only_items, i) <=> ~Has(remote_status, i)
               /\ Get(remote_status, r).path = Get(local_status, i).path

\* a flagged pair where nothing was deleted and nothing is new
C4_Witness ==
    /\ st_pc = "done"
    /\ \E r \in RemoteIds : \E i \in LocalIds :
          /\ InList(replace_existing, r) /\ FlaggedBy(r, i)
          /\ Has(remote_status, i) /\ Has(local_status, r)

\* the ids of list occur in the order they have in keys
InOrderOf(list, keys) ==
    \A a, b \in 1..Len(list) : a < b => Pos(keys, list[a]) < Pos(keys, list[b])

\* the ids of list are in ascending path order of dict, ties in dict's order
InPathOrderOf(list, dict) ==
    \A a, b \in 1..Len(list) : a < b =>
        \/ Get(dict, list[a]).path < Get(dict, list[b]).path
        \/ /\ Get(dict, list[a]).path = Get(dict, list[b]).path
           /\ Pos(Keys(dict), list[a]) < Pos(Keys(dict), list[b])

RemoteLists ==
    {remote_only_items, remote_newer_items, local_newer_items, same_version_items}

\* C5 as claimed: for every call, with or without sort, each list is in the
\* insertion order of its population.
C5_Original ==
    st_pc = "done" =>
        /\ \A l \in RemoteLists : InOrderOf(l, Keys(remote_status))
        /\ InOrderOf(local_only_items, Keys(local_status))

\* C5, amended: without the sort option each list is in the insertion order
\* of its population (remote status for new, modified, outdated, unchanged;
\* snapshot for deleted); with the sort option each list is in ascending
\* order of path, ids of equal path in insertion order.
C5_Amended ==
    st_pc = "done" =>
        /\ ~st_sort =>
              /\ \A l \in RemoteLists : InOrderOf(l, Keys(remote_status))
              /\ InOrderOf(local_only_items, Keys(local_status))
        /\ st_sort =>
              /\ \A l \in RemoteLists : InPathOrderOf(l, remote_status)
              /\ InPathOrderOf(local_only_items, local_status)

\* a sorted call whose list of new ids is not in the remote status's order
C5_Witness ==
    /\ st_pc = "done"
    /\ st_sort
    /\ Len(remote_only_items) = 2
    /\ ~InOrderOf(remote_only_items, Keys(remote_status))

(***************************************************************************)
(* Properties of export_folder and of the tree it builds                   *)
(***************************************************************************)
\* the listing as _build_item_tree indexes it
ItemTable == [files EXCEPT ![root_file_id].title = RootTitle]

\* export_folder got its item and the item is a folder
FolderRun == ex_pc # "idle" /\ ex_item # NoItem /\ ex_item.type = "folder"

\* export_folder is over: it returned, or an exception left it
RunOver == ex_pc \in {"done", "raised"}

\* the documents under id in the listing itself, depth first in listed order
RECURSIVE DocumentsUnder(_)
DocumentsUnderAll(ids) == Flatten([k \in 1..Len(ids) |-> DocumentsUnder(ids[k])])

DocumentsUnder(id) ==
    IF id \notin DOMAIN files THEN <<>>
    ELSE IF files[id].type = "document" THEN <<id>>
    ELSE IF files[id].type = "folder" THEN DocumentsUnderAll(files[id].children)
    ELSE <<>>

\* the items of unknown type under id that the walk meets
RECURSIVE UnknownUnder(_)
UnknownUnderAll(ids) == Flatten([k \in 1..Len(ids) |-> UnknownUnder(ids[k])])

UnknownUnder(id) ==
    IF id \notin DOMAIN files THEN <<>>
    ELSE IF files[id].type = "document" THEN <<>>
    ELSE IF files[id].type = "folder" THEN UnknownUnderAll(files[id].children)
    ELSE <<id>>

\* ceil(N / limit) - 1 for N > 0, and 0 for N = 0
ExpectedPauses(N) == IF N = 0 THEN 0 ELSE (N + limit - 1) \div limit - 1

\* C6: once export_folder is over a list of N documents, it has paused
\* exactly after the documents 20, 40, ... that have a successor in the list:
\* ceil(N/20) - 1 pauses for N > 0, none for N = 0.
C6_Pauses ==
    (FolderRun /\ RunOver) =>
        ex_pauses = [k \in 1..ExpectedPauses(Len(ex_documents)) |-> limit * k]

\* C7: once export_folder is over, read_doc was attempted for exactly the
\* documents reachable from the root through folders, each once, depth first
\* in listed order, and every item of unknown type under the root was
\* reported.
C7_EveryDocumentOnce ==
    (FolderRun /\ RunOver) =>
        /\ ex_reads = DocumentsUnder(ex_item.id)
        /\ \A i \in Range(UnknownUnder(ex_item.id)) :
              \E k \in 1..Len(ex_errors) : ex_errors[k] = Error("Unknown type", i)

\* the documents handled so far whose file was not written completely
FailedDocuments ==
    {k \in 1..ex_j :
        ~\E w \in 1..Len(ex_writes) :
            ex_writes[w].id = ex_documents[k].id /\ ex_writes[w].complete}

\* C8: when the fetch, the serialization or the write of a document fails,
\* the failure is reported, the run is not aborted and every later document
\* is still handed to export_document.
C8_FailureDoesNotAbort ==
    (FolderRun /\ RunOver /\ FailedDocuments # {}) =>
        /\ ex_pc = "done"
        /\ ex_j = Len(ex_documents)
        /\ \A k \in FailedDocuments :
              \E e \in 1..Len(ex_errors) : ex_errors[e].id = ex_documents[k].id

\* C9: when the item export_folder resolved is not a folder, the call is
\* over with the error "Not a folder" as its last report, read_doc was never
\* called and no file was opened.
C9_NotAFolder ==
    (ex_pc # "idle" /\ ex_item # NoItem /\ ex_item.type # "folder") =>
        /\ ex_pc = "done"
        /\ ex_errors # <<>>
        /\ ex_errors[Len(ex_errors)] = Error("Not a folder", ex_item.id)
        /\ ex_documents = <<>>
        /\ ex_reads = <<>>
        /\ ex_writes = <<>>
        /\ ex_pauses = <<>>

C9_Witness ==
    /\ ex_pc = "done"
    /\ ex_item # NoItem
    /\ ex_item.type = "document"
    /\ \E i \in DOMAIN files : files[i].type = "document" /\ i # ex_item.id

\* the ids of ids that have a record
PresentIds(ids) ==
    LET HasRecord(i) == i \in DOMAIN files
    IN  SelectSeq(ids, HasRecord)

\* item and all below it are built from their records, a folder's children
\* being its listed child ids that have a record, in listed order
RECURSIVE BuiltFromListing(_)
BuiltFromListing(item) ==
    /\ item.id \in DOMAIN files
    /\ item.type = files[item.id].type
    /\ LET listed == IF "children" \in DOMAIN files[item.id]
                     THEN PresentIds(files[item.id].children) ELSE <<>>
       IN  /\ Len(item.children) = Len(listed)
           /\ \A k \in 1..Len(listed) :
                 /\ item.children[k].id = listed[k]
                 /\ BuiltFromListing(item.children[k])

\* C10: in the tree _build_item_tree returns, a listed child id without a
\* record is the only thing missing: at every depth a folder's children are
\* exactly its listed child ids that have a record, in listed order, each
\* with its whole subtree.
C10_MissingChildSkipped ==
    ex_item # NoItem => BuiltFromListing(ex_item)

\* a folder below the root lists a missing id before a child that exists
C10_Witness ==
    /\ ex_item # NoItem
    /\ \E k \in 1..Len(ex_item.children) :
          LET f == ex_item.children[k]
          IN  /\ f.type = "folder"
              /\ Len(files[f.id].children) = 2
              /\ files[f.id].children[1] = MissingId
              /\ Len(f.children) = 1

(***************************************************************************)
(* Properties of the paths of the tree                                     *)
(***************************************************************************)
\* item is d levels below the item export_folder resolved, its path has d
\* components below that item's path, and so on for everything below it,
\* each child's path being item's path and one component, the child's title
RECURSIVE DepthIsDistance(_, _)
DepthIsDistance(item, d) ==
    /\ IsPrefix(ex_item.path, item.path)
    /\ Len(RelativeTo(item.path, ex_item.path)) = d
    /\ \A k \in 1..Len(item.children) :
          /\ item.children[k].path = JoinPath(item.path, ItemTable[item.children[k].id].title)
          /\ DepthIsDistance(item.children[k], d + 1)

\* C11: in every tree _build_item_tree built, for any titles, each item's
\* path below the root is its parent's path joined with its own title, and
\* the number of its path components below the chosen root is its distance
\* from the chosen root.
C11_DepthIsDistance ==
    ex_item # NoItem => DepthIsDistance(ex_item, 0)

(***************************************************************************)
(* Properties of the serializer                                            *)
(***************************************************************************)
\* the positions of the output that hold an element of a node
ElementLines == {k \in 1..Len(wd_output) : wd_output[k].kind \in {"open", "empty"}}

\* the record of the node a line was written for
NodeOf(l) == wd_json.nodes[l.id]

HasAttr(l, name) == \E k \in 1..Len(l.parts) : l.parts[k].name = name

\* the field is present and true
Truthy(node, key) == HasField(node, key) /\ Field(node, key) = TRUE

\* C12 (as claimed): in every element _write_node emitted, the note
\* attribute is there exactly when the note field is present and non-empty,
\* checkbox, complete, listStyle and collapsed exactly when the fields
\* checkbox, checked, numbered and collapsed are present and truthy, and
\* colorLabel exactly when color is present and non-zero.
C12_Original ==
    \A k \in ElementLines :
        LET l == wd_output[k]
            node == NodeOf(l)
        IN  /\ HasAttr(l, "_note") <=> (HasField(node, "note") /\ Field(node, "note") # <<>>)
            /\ HasAttr(l, "checkbox") <=> Truthy(node, "checkbox")
            /\ HasAttr(l, "complete") <=> Truthy(node, "checked")
            /\ HasAttr(l, "listStyle") <=> Truthy(node, "numbered")
            /\ HasAttr(l, "collapsed") <=> Truthy(node, "collapsed")
            /\ HasAttr(l, "colorLabel") <=> (HasField(node, "color") /\ Field(node, "color") # 0)

\* C12 (amended): in every element _write_node emitted, the note attribute
\* is there exactly when the note field is present and non-empty; checkbox,
\* complete and listStyle exactly when with_format is set and the fields
\* checkbox, checked and numbered are present and truthy; colorLabel exactly
\* when with_format is set and color is present and non-zero; collapsed
\* exactly when with_state is set and the field collapsed is present and
\* truthy.
C12_Amended ==
    \A k \in ElementLines :
        LET l == wd_output[k]
            node == NodeOf(l)
        IN  /\ HasAttr(l, "_note") <=> (HasField(node, "note") /\ Field(node, "note") # <<>>)
            /\ HasAttr(l, "checkbox") <=> (wd_with_format /\ Truthy(node, "checkbox"))
            /\ HasAttr(l, "complete") <=> (wd_with_format /\ Truthy(node, "checked"))
            /\ HasAttr(l, "listStyle") <=> (wd_with_format /\ Truthy(node, "numbered"))
            /\ HasAttr(l, "collapsed") <=> (wd_with_state /\ Truthy(node, "collapsed"))
            /\ HasAttr(l, "colorLabel") <=>
                  (wd_with_format /\ HasField(node, "color") /\ Field(node, "color") # 0)

\* with_format without with_state: a node with a true checkbox, a false
\* checked, the colour 0 and a true collapsed got the checkbox alone
C12_Witness ==
    /\ wd_pc = "done"
    /\ wd_with_format
    /\ ~wd_with_state
    /\ \E k \in ElementLines :
          LET l == wd_output[k]
              node == NodeOf(l)
          IN  /\ Truthy(node, "checkbox")
              /\ HasField(node, "checked") /\ ~Field(node, "checked")
              /\ HasField(node, "color") /\ Field(node, "color") = 0
              /\ Truthy(node, "collapsed")
              /\ HasAttr(l, "checkbox")
              /\ ~HasAttr(l, "collapsed")

\* the fixed order of the attributes
AttributeOrder ==
    <<"text", "_note", "checkbox", "complete", "colorLabel", "listStyle", "collapsed">>

Rank(name) == CHOOSE r \in 1..Len(AttributeOrder) : AttributeOrder[r] = name

\* C13: every element _write_node emitted carries a text attribute, and its
\* attributes appear in the order text, note, checkbox, complete,
\* colorLabel, listStyle, collapsed, whatever the order of the fields in the
\* record of the node.
C13_AttributeOrder ==
    \A k \in ElementLines :
        LET parts == wd_output[k].parts
        IN  /\ parts # <<>>
            /\ parts[1].name = "text"
            /\ \A a \in 1..Len(parts) :
                  \E r \in 1..Len(AttributeOrder) : AttributeOrder[r] = parts[a].name
            /\ \A a, b \in 1..Len(parts) :
                  a < b => Rank(parts[a].name) < Rank(parts[b].name)

\* an element with all seven attributes, of a record whose fields come in
\* the reverse order
C13_Witness ==
    /\ wd_pc = "done"
    /\ \E k \in ElementLines :
          /\ Len(wd_output[k].parts) = Len(AttributeOrder)
          /\ "collapsed" \in DOMAIN NodeOf(wd_output[k])[1]

\* the ids _write_document starts from: "root", or the children of "root"
TopIds ==
    IF wd_root_node THEN <<RootId>>
    ELSE IF RootId \in DOMAIN wd_json.nodes /\ HasField(wd_json.nodes[RootId], "children")
    THEN Field(wd_json.nodes[RootId], "children")
    ELSE <<>>

\* the position after the elements of the nodes ids at depth d that start
\* at position pos of the output, or 0 when the output does not hold them:
\* a node with the field children is an opening element, the elements of
\* its children at depth d + 1 and a closing element at depth d, a node
\* without it is one self-closed element; an id without a record has no
\* element
RECURSIVE Nested(_, _, _)
Nested(ids, d, pos) ==
    IF pos = 0 THEN 0
    ELSE IF ids = <<>> THEN pos
    ELSE IF Head(ids) \notin DOMAIN wd_json.nodes THEN Nested(Tail(ids), d, pos)
    ELSE IF pos > Len(wd_output) THEN 0
    ELSE LET n == Head(ids)
             l == wd_output[pos]
         IN  IF l.id # n \/ l.indent # d THEN 0
             ELSE IF HasField(wd_json.nodes[n], "children")
             THEN IF l.kind # "open" THEN 0
                  ELSE LET q == Nested(Field(wd_json.nodes[n], "children"), d + 1, pos + 1)
                       IN  IF q = 0 \/ q > Len(wd_output) THEN 0
                           ELSE IF wd_output[q] # Line("close", d, n, <<>>) THEN 0
                           ELSE Nested(Tail(ids), d, q + 1)
             ELSE IF l.kind # "empty" THEN 0
             ELSE Nested(Tail(ids), d, pos + 1)

\* C14: in what _write_document wrote, a node with the field children (even
\* an empty one) is an opening element, then its children in listed order
\* one level deeper, then a closing element at the same indentation, and a
\* node without the field is exactly one self-closed element: opening and
\* closing elements are balanced and properly nested.
C14_Nested ==
    wd_pc # "idle" =>
        LET e == Nested(TopIds, 2, 2)
        IN  /\ e # 0
            /\ \A k \in e..Len(wd_output) : wd_output[k].kind = "tail"

StartsWith(v, prefix) ==
    Len(v) >= Len(prefix) /\ SubSeq(v, 1, Len(prefix)) = prefix

\* the text a markup value stands for: an entity is its character, any
\* other character is itself, a metacharacter outside an entity is "raw"
RECURSIVE Unescape(_)
Unescape(v) ==
    IF v = <<>> THEN <<>>
    ELSE IF \E c \in DOMAIN table : StartsWith(v, table[c])
    THEN LET c == CHOOSE c \in DOMAIN table : StartsWith(v, table[c])
         IN  <<c>> \o Unescape(SubSeq(v, Len(table[c]) + 1, Len(v)))
    ELSE IF Head(v) \in DOMAIN table THEN <<"raw">> \o Unescape(Tail(v))
    ELSE <<Head(v)>> \o Unescape(Tail(v))

\* the free text a written value was made from
SourceOf(l, name) ==
    IF name = "title" THEN wd_json.title
    ELSE IF name = "text" THEN Field(NodeOf(l), "content")
    ELSE Field(NodeOf(l), "note")

\* C15: every free-text value _write_document wrote -- a node's content, a
\* node's note and the title in the header -- has its five metacharacters
\* replaced by their entities: no raw metacharacter is left and the value
\* stands for the source text.
C15_Escaped ==
    \A k \in 1..Len(wd_output) :
        \A a \in 1..Len(wd_output[k].parts) :
            LET part == wd_output[k].parts[a]
            IN  part.name \in {"title", "text", "_note"} =>
                    Unescape(part.value) = SourceOf(wd_output[k], part.name)

\* the output without the lines of "root", every element one level up
Unwrapped(output) ==
    LET NotRoot(l) == l.kind \in {"head", "tail"} \/ l.id # RootId
        kept == SelectSeq(output, NotRoot)
    IN  [k \in 1..Len(kept) |->
            IF kept[k].kind \in {"head", "tail"} THEN kept[k]
            ELSE [kept[k] EXCEPT !.indent = @ - 1]]

\* the ids of the elements at depth d, in order
IdsAtDepth(output, d) ==
    LET AtDepth(l) == l.kind \in {"open", "empty"} /\ l.indent = d
        at == SelectSeq(output, AtDepth)
    IN  [k \in 1..Len(at) |-> at[k].id]

\* what the call wrote and what the call with the other root_node writes
OutputWithRoot ==
    IF wd_root_node THEN wd_output
    ELSE WriteDocument(wd_json, TRUE, wd_with_format, wd_with_state).output

OutputWithoutRoot ==
    IF wd_root_node
    THEN WriteDocument(wd_json, FALSE, wd_with_format, wd_with_state).output
    ELSE wd_output

RECURSIVE ReachesMissing(_)
ReachesMissing(ids) ==
    \E k \in 1..Len(ids) :
        \/ ids[k] \notin DOMAIN wd_json.nodes
        \/ /\ HasField(wd_json.nodes[ids[k]], "children")
           /\ ReachesMissing(Field(wd_json.nodes[ids[k]], "children"))

\* C20: when a node of the document lists a child id that has no record,
\* _write_document still returns: the branch of that id alone is skipped,
\* the remaining siblings, the closing elements and the footer are written,
\* and the output is not left truncated.
C20_MissingNodeSkipped ==
    (/\ wd_pc # "idle"
     /\ RootId \in DOMAIN wd_json.nodes
     /\ HasField(wd_json.nodes[RootId], "children")
     /\ ReachesMissing(Field(wd_json.nodes[RootId], "children"))) =>
        /\ wd_pc = "done"
        /\ wd_output[Len(wd_output)].kind = "tail"
        /\ Nested(TopIds, 2, 2) = Len(wd_output)

(***************************************************************************)
(* Properties of update and of the snapshot file                           *)
(***************************************************************************)
\* what a write left in its file
ContentOf(w) == [id |-> w.id, version |-> ReadVersion(w.id), complete |-> w.complete]

\* C17: in a second update, run after a first one that saved its snapshot
\* and with no remote change in between, the snapshot file stays the one
\* the first run wrote, and every document file the run rewrites gets the
\* content it had.
C17_Idempotent ==
    (up_second /\ up_first_saved /\ ~up_edited /\ up_pc # "idle") =>
        /\ settings = up_settings
        /\ \A k \in 1..Len(ex_writes) :
              ex_writes[k].path \in DOMAIN disk
                  => ContentOf(ex_writes[k]) = disk[ex_writes[k].path]

\* the export step of the running update failed: export_folder reported an
\* error (item tree not fetched, root not a folder, destination not a
\* directory, a document not fetched) or an exception left it
ExportFailed ==
    /\ up_pc \in {"export", "saved", "raised"}
    /\ ex_pc \in {"done", "raised"}
    /\ ex_errors # <<>> \/ ex_pc = "raised"

\* C18: when the export step of update failed, the snapshot file keeps the
\* content it had when update loaded it.
C18_SnapshotKept ==
    ExportFailed => settings = up_settings

\* the last report is the missing settings file
ReportedMissing ==
    /\ up_errors # <<>>
    /\ up_errors[Len(up_errors)] = Error("FileNotFoundError", 0)

\* C19: while there is no settings file, a step of status or of update only
\* reports the missing file and returns: no remote call is made, no
\* document file is written, no settings file is created and no exception
\* leaves the call.
C19_MissingSnapshot ==
    [][~settings.exists =>
          /\ ~settings'.exists
          /\ up_calls' = 0
          /\ ex_pc' = "idle" /\ ex_reads' = <<>> /\ ex_writes' = <<>>
          /\ disk' = disk
          /\ up_pc' \in {"idle", "returned"}
          /\ up_status' \in {"idle", "returned"}
          /\ st_pc' = "idle" /\ st_output' = <<>>
          /\ (up_pc # "returned" /\ up_pc' = "returned") => ReportedMissing'
          /\ (up_status # "returned" /\ up_status' = "returned") => ReportedMissing']_vars

\* status and then update were called without a settings file
C19_Witness ==
    /\ ~settings.exists
    /\ up_status = "returned"
    /\ up_pc = "returned"
    /\ Len(up_errors) = 2

(***************************************************************************)
(* Properties of the reports of _build_item_tree                           *)
(***************************************************************************)
\* the listed child ids without a record that the build meets under id, one
\* per reference, depth first in listed order
RECURSIVE MissingUnder(_)
MissingUnderAll(ids) == Flatten([k \in 1..Len(ids) |-> MissingUnder(ids[k])])

MissingUnder(id) ==
    IF id \notin DOMAIN files THEN <<id>>
    ELSE IF "children" \in DOMAIN files[id] THEN MissingUnderAll(files[id].children)
    ELSE <<>>

\* the reports of line 48 among what was reported
InvalidIdReports ==
    SelectSeq(ex_errors, LAMBDA e : e.kind = "Invalid item ID")

\* C21: when _build_item_tree skipped listed child ids that have no record,
\* exactly one error was reported per missing child reference, and each
\* names the missing child id.
C21_ReportNamesMissingChild ==
    ex_item # NoItem =>
        LET missing == MissingUnder(ex_item.id)
        IN  InvalidIdReports =
                [k \in 1..Len(missing) |-> Error("Invalid item ID", missing[k])]

(***************************************************************************)
(* Properties of the destination files                                     *)
(***************************************************************************)
\* C23: within one export_folder run no two distinct documents are written
\* to the same destination path, whatever the titles of the tree: no file
\* written for a document is overwritten by another document of the run.
C23_DistinctDestinations ==
    \A a, b \in 1..Len(ex_writes) :
        ex_writes[a].path = ex_writes[b].path => ex_writes[a].id = ex_writes[b].id

\* the document files as they are now, the writes of the running process
\* included
DiskNow == DiskAfter(disk, ex_writes, ReadVersions)

\* C22: once update has written the snapshot, every document id in the
\* snapshot has a file written by this run that holds the full content of
\* the version the snapshot records for it, whatever the remote service
\* changed between the steps of update.
C22_SnapshotMatchesFiles ==
    up_pc = "saved" =>
        \A k \in 1..Len(settings.status) :
            LET e == settings.status[k]
            IN  \E w \in 1..Len(ex_writes) :
                    /\ ex_writes[w].id = e.id
                    /\ DiskNow[ex_writes[w].path]
                           = [id |-> e.id, version |-> e.version, complete |-> TRUE]

\* status ran to its end in the process after an update that saved its
\* snapshot, with no remote change since that update
StatusAfterUpdate ==
    /\ up_second
    /\ up_first_saved
    /\ up_edit = NoEdit
    /\ up_status = "loaded"
    /\ st_pc = "done"

\* the ids of the documents under the root
DocumentsUnderRoot == {remote_status[k].id : k \in 1..Len(remote_status)}

\* C24: the status that follows a completed update, with no remote change
\* in between, lists every document under the root as unchanged: no new,
\* deleted, modified or outdated document and no id flagged
\* replace-existing, whatever the snapshot held before the update.
C24_StatusClean ==
    StatusAfterUpdate =>
        /\ remote_only_items = <<>>
        /\ local_only_items = <<>>
        /\ remote_newer_items = <<>>
        /\ local_newer_items = <<>>
        /\ replace_existing = <<>>
        /\ Range(same_version_items) = DocumentsUnderRoot

====
